---- MODULE Spec2Model ----
(***************************************************************************)
(* Model of dropbox_uploader/dropbox_uploader.py: the DropboxUploader      *)
(* object (lazy client, close, context manager) and the upload() retry     *)
(* loop with its small-file and chunked large-file strategies.             *)
(*                                                                         *)
(* The program is single threaded.  One step of the model is one step of   *)
(* the caller (constructor, __enter__, __exit__, close, client) or one     *)
(* step inside a running upload(): the prologue, the strategy dispatch of  *)
(* one attempt, one backend call, one except clause, one time.sleep.       *)
(* The backend is the environment: every backend call draws its outcome    *)
(* from Outcomes.                                                          *)
(*                                                                         *)
(* Spec is library use of one uploader.  SpecCLI is one run of main() of   *)
(* the command line, which drives the same uploader steps in a fixed       *)
(* order.  SpecNormalize and SpecResolve apply the two path helpers to     *)
(* strings, modelled as sequences of characters.  SpecLargeDirect is one   *)
(* call of _upload_large_file on its own, outside the retry loop.          *)
(***************************************************************************)
EXTENDS Integers, Sequences, FiniteSets, TLC

\* ---------------------------------------------------------------- constants
CHUNK_SIZE == 4 * 1024 * 1024
MAX_RETRIES == 3
SMALL_FILE_LIMIT == 150 * 1024 * 1024

\* ------------------------------------------------------------------- bounds
\* upload() calls and client reads performed on one uploader after its
\* construction: MaxOps when the local file takes the small-file path,
\* MaxLargeOps when it takes the chunked path (whose attempts are long)
MaxOps == 2
MaxLargeOps == 1
\* large files of 38 .. 37 + MaxExtraChunks whole chunks (and one byte more)
MaxExtraChunks == 1
\* append calls of one attempt beyond those the largest file needs (the chunk
\* loop has no bound of its own when the file on disk is shorter than the
\* recorded size)
MaxStalledAppends == 1

\* ----------------------------------------------------------- input domains
\* credentials found by __init__: none, a legacy access token (argument or
\* DROPBOX_ACCESS_TOKEN), or the complete app-key/app-secret/refresh triple
Credentials == {"none", "token", "refresh"}

\* what the resolved local path denotes
FileKinds == {"missing", "dir", "file"}

\* st_size values: empty, tiny, the threshold itself, one byte above it, and
\* whole multiples of the chunk size above the threshold (and one byte more)
Sizes ==
  {0, 1, SMALL_FILE_LIMIT, SMALL_FILE_LIMIT + 1}
    \cup {k * CHUNK_SIZE + d : k \in 38..(37 + MaxExtraChunks), d \in {0, 1}}

\* cap on the append calls of one attempt
AppendCap == 36 + MaxExtraChunks + MaxStalledAppends

\* bytes the file holds when an attempt opens it: the recorded size, or fewer
\* when the file was truncated after stat()
DiskLens(s) == {s} \cup {l \in {s - 1, CHUNK_SIZE} : l >= 0 /\ l < s}

\* outcome of one backend call: success or the exception it raises.
\* ApiConflict, ApiSpace: ApiError whose text holds "path/conflict" or
\* "insufficient_space"; ApiOther: any other ApiError; OtherException: any
\* other Exception subclass (HttpError, RateLimitError, ...)
Outcomes ==
  {"ok", "AuthError", "ApiConflict", "ApiSpace", "ApiOther",
   "ConnectionError", "TimeoutError", "OtherException"}

ApiErrors == {"ApiConflict", "ApiSpace", "ApiOther"}
ConnectionErrors == {"ConnectionError", "TimeoutError"}

VARIABLES
  \* environment
  creds,          \* credentials available to the uploader
  fileKind,       \* what the local path denotes
  st_size,        \* size stat() reports
  diskLen,        \* bytes actually readable when the file is opened
  \* the DropboxUploader object
  client,         \* self._client: 0 is None, k >= 1 the k-th client built
  nClients,       \* dropbox.Dropbox objects constructed so far
  verified,       \* clients whose users_get_current_account succeeded
  nVerify,        \* users_get_current_account calls made so far
  closeCalls,     \* closeCalls[k]: close() calls received by client k
  nClose,         \* self._client.close() calls made by the uploader
  \* the caller
  cpc,            \* "new", "ready" (between operations), "uploading"
  inWith,         \* inside a 'with uploader' block
  nOps,           \* operations performed since construction
  lastOp,         \* the operation performed last
  raised,         \* exception the last operation let through to the caller
  leftBy,         \* how the last with block was left: "normal", "exception"
  blockClients,   \* clients constructed inside the current/last with block
  \* locals of the running (or last) upload() call
  upc,            \* "idle", "try", "call", "except", "sleep", "done"
  overwrite,      \* the overwrite argument
  file_size,      \* file_size recorded before the retry loop
  attempt,        \* loop variable of the retry loop
  strategy,       \* "small" or "large": the branch the attempt took
  nextCall,       \* backend call the attempt is about to issue
  handleOpen,     \* the 'with open(...)' handle of the attempt is open
  tell,           \* f.tell()
  cursor,         \* UploadSessionCursor: [session_id, offset]
  exc,            \* exception in flight at the except clauses
  last_error,     \* last_error
  result,         \* how upload() ended
  returned,       \* the value upload() returned
  cause,          \* the exception quoted in the message of the error raised
  metadata,       \* path_display of the metadata the backend returned
  \* observations of the running (or last) upload() call
  attemptsStarted, \* attempts started
  delays,          \* time.sleep(RETRY_DELAY) calls completed
  strategies,      \* strategies used by the attempts so far
  calls,           \* backend upload calls issued by the current attempt
  bytesSent,       \* bytes carried by those calls
  maxCallBytes,    \* largest payload of one of those calls
  commits,         \* path and mode given to the upload and finish calls
  gotClient,       \* the current attempt obtained a client from self.client
  backendTouched,  \* the upload() call built a client or called the backend
  \* main() of the command line (cliPc = "lib": the caller is library code)
  cliPc,          \* position of main()
  cliExc,         \* exception that left the with statement of main()
  dropbox_path,   \* main()'s dropbox_path: the value upload() returned to it
  exitCode,       \* status the process exited with, -1 while it runs
  \* one call of a path helper
  fnPc,           \* "off", "input", "output"
  fnIn,           \* the argument, a sequence of characters
  fnOut           \* the string computed from it

envVars == <<creds, fileKind, st_size, diskLen>>
objVars == <<client, nClients, verified, nVerify, closeCalls, nClose>>
callerVars == <<cpc, inWith, nOps, lastOp, raised, leftBy, blockClients>>
uplVars ==
  <<upc, overwrite, file_size, attempt, strategy, nextCall, handleOpen, tell,
    cursor, exc, last_error, result, returned, cause, metadata>>
outVars == <<returned, cause, metadata>>
obsVars ==
  <<attemptsStarted, delays, strategies, calls, bytesSent, maxCallBytes,
    gotClient, backendTouched, commits>>
cliVars == <<cliPc, cliExc, dropbox_path, exitCode>>
fnVars == <<fnPc, fnIn, fnOut>>
vars == <<envVars, objVars, callerVars, uplVars, obsVars, cliVars, fnVars>>

\* the operations the caller may still start
OpsLeft ==
  nOps < (IF fileKind = "file" /\ st_size > SMALL_FILE_LIMIT
            THEN MaxLargeOps ELSE MaxOps)

NoCalls == [upload |-> 0, start |-> 0, append |-> 0, finish |-> 0]
NoCursor == [session_id |-> 0, offset |-> 0]

Min(a, b) == IF a <= b THEN a ELSE b
Max(a, b) == IF a >= b THEN a ELSE b

\* ---------------------------------------------------------------------------
\* Init: the process before DropboxUploader(...) is evaluated
\* ---------------------------------------------------------------------------
IdleUpload ==
  /\ upc = "idle" /\ overwrite = TRUE /\ file_size = 0 /\ attempt = 0
  /\ strategy = "none" /\ nextCall = "none" /\ handleOpen = FALSE /\ tell = 0
  /\ cursor = NoCursor /\ exc = "none" /\ last_error = "none"
  /\ result = "none" /\ returned = "none" /\ cause = "none"
  /\ metadata = "none"
  /\ attemptsStarted = 0 /\ delays = 0 /\ strategies = {} /\ calls = NoCalls
  /\ bytesSent = 0 /\ maxCallBytes = 0 /\ gotClient = FALSE
  /\ commits = {}
  /\ backendTouched = FALSE

\* the credentials and the local file the process finds
Environment ==
  /\ creds \in Credentials
  /\ fileKind \in FileKinds
  /\ st_size \in (IF fileKind = "file" THEN Sizes ELSE {0})
  /\ diskLen \in DiskLens(st_size)

\* no uploader constructed yet
NoUploader ==
  /\ client = 0 /\ nClients = 0 /\ verified = {} /\ nVerify = 0
  /\ closeCalls = << >> /\ nClose = 0
  /\ cpc = "new" /\ inWith = FALSE /\ nOps = 0 /\ lastOp = "none"
  /\ raised = "none" /\ leftBy = "none" /\ blockClients = {}
  /\ IdleUpload

\* main() at position pos, nothing decided yet
MainAt(pos) ==
  /\ cliPc = pos /\ cliExc = "none" /\ dropbox_path = "none"
  /\ exitCode = -1

\* no path helper is being called
NoHelper == fnPc = "off" /\ fnIn = << >> /\ fnOut = << >>

\* library use: the caller is code that holds a DropboxUploader
Init ==
  /\ Environment
  /\ NoUploader
  /\ MainAt("lib")
  /\ NoHelper

\* ---------------------------------------------------------------------------
\* DropboxUploader.__init__ (lines 65-89): stores the credentials it finds
\* and sets self._client to None; it makes no check and raises nothing
\* ---------------------------------------------------------------------------
\* the locals of upload() at the given position, nothing observed yet
FreshUpload(pos, ow, size, att, res) ==
  /\ upc' = pos /\ overwrite' = ow /\ file_size' = size /\ attempt' = att
  /\ result' = res /\ returned' = "none" /\ cause' = "none"
  /\ metadata' = "none"
  /\ strategy' = "none" /\ nextCall' = "none" /\ handleOpen' = FALSE
  /\ tell' = 0 /\ cursor' = NoCursor /\ exc' = "none" /\ last_error' = "none"
  /\ attemptsStarted' = 0 /\ delays' = 0 /\ strategies' = {}
  /\ calls' = NoCalls /\ bytesSent' = 0 /\ maxCallBytes' = 0
  /\ gotClient' = FALSE /\ backendTouched' = FALSE
  /\ commits' = {}

\* the locals of the last upload() call are gone when the caller moves on
ForgetUpload == FreshUpload("idle", TRUE, 0, 0, "none")

\* main() of the command line is a caller that performs op only at position
\* op of its script and then stands at position next; library code is free
Caller(op, next) ==
  IF cliPc = "lib" THEN UNCHANGED cliPc
  ELSE cliPc = op /\ cliPc' = next

\* exception raised by __init__ for the credentials it finds ("none": returns)
InitRaises(c) == "none"

Construct ==
  /\ cpc = "new"
  /\ raised' = InitRaises(creds)
  /\ cpc' = IF InitRaises(creds) = "none" THEN "ready" ELSE "new"
  /\ lastOp' = "init"
  /\ client' = 0
  /\ UNCHANGED <<nClients, verified, nVerify, closeCalls, nClose>>
  /\ UNCHANGED <<inWith, nOps, leftBy, blockClients>>
  /\ UNCHANGED <<envVars, fnVars, uplVars, obsVars>>
  /\ Caller("construct", "enter")
  /\ UNCHANGED <<cliExc, dropbox_path, exitCode>>

\* ---------------------------------------------------------------------------
\* the client property (lines 92-116) and _verify_connection (lines 119-127)
\* ---------------------------------------------------------------------------
\* _verify_connection: the exception it raises when users_get_current_account
\* ends with outcome o ("none": it returns)
VerifyConnection(o) ==
  IF o = "ok" THEN "none"
  ELSE IF o = "AuthError" THEN "AuthenticationError"
  ELSE "DropboxUploaderError"

\* variant: a client whose verification failed is not kept
LazyClient_DropsUnverified(o) ==
  /\ client = 0
  /\ creds # "none"
  /\ nClients' = nClients + 1
  /\ client' = IF o = "ok" THEN nClients + 1 ELSE 0
  /\ nVerify' = nVerify + 1
  /\ verified' = IF o = "ok" THEN verified \cup {nClients + 1} ELSE verified
  /\ closeCalls' = Append(closeCalls, 0)
  /\ UNCHANGED nClose
  /\ blockClients' =
       IF inWith THEN blockClients \cup {nClients + 1} ELSE blockClients

\* the branch of the client property taken when self._client is None and
\* credentials exist: the client is built and stored, then verified
LazyClient(o) ==
  /\ client = 0
  /\ creds # "none"
  /\ nClients' = nClients + 1
  /\ client' = nClients + 1
  /\ nVerify' = nVerify + 1
  /\ verified' = IF o = "ok" THEN verified \cup {nClients + 1} ELSE verified
  /\ closeCalls' = Append(closeCalls, 0)
  /\ UNCHANGED nClose
  /\ blockClients' =
       IF inWith THEN blockClients \cup {nClients + 1} ELSE blockClients

\* the caller reads uploader.client
ClientAccessHeld ==
  /\ cpc = "ready" /\ OpsLeft
  /\ client # 0
  /\ nOps' = nOps + 1 /\ lastOp' = "client" /\ raised' = "none"
  /\ ForgetUpload
  /\ leftBy' = "none"
  /\ UNCHANGED <<cpc, inWith, blockClients>>
  /\ UNCHANGED <<envVars, fnVars, cliVars, objVars>>

ClientAccessNoCredentials ==
  /\ cpc = "ready" /\ OpsLeft
  /\ client = 0 /\ creds = "none"
  /\ nOps' = nOps + 1 /\ lastOp' = "client"
  /\ raised' = "AuthenticationError"
  /\ ForgetUpload
  /\ leftBy' = "none"
  /\ UNCHANGED <<cpc, inWith, blockClients>>
  /\ UNCHANGED <<envVars, fnVars, cliVars, objVars>>

ClientAccessCreate(o) ==
  /\ cpc = "ready" /\ OpsLeft
  /\ LazyClient(o)
  /\ nOps' = nOps + 1 /\ lastOp' = "client"
  /\ raised' = VerifyConnection(o)
  /\ ForgetUpload
  /\ leftBy' = "none"
  /\ UNCHANGED <<cpc, inWith>>
  /\ UNCHANGED <<envVars, fnVars, cliVars>>

\* ---------------------------------------------------------------------------
\* close (lines 358-363), __enter__ (365-366), __exit__ (368-370)
\* ---------------------------------------------------------------------------
\* variant: the client is closed but still held
close_KeepsClient ==
  IF client # 0
    THEN /\ closeCalls' = [closeCalls EXCEPT ![client] = @ + 1]
         /\ nClose' = nClose + 1
         /\ UNCHANGED client
    ELSE UNCHANGED <<client, closeCalls, nClose>>

close ==
  IF client # 0
    THEN /\ closeCalls' = [closeCalls EXCEPT ![client] = @ + 1]
         /\ nClose' = nClose + 1
         /\ client' = 0
    ELSE UNCHANGED <<client, closeCalls, nClose>>

\* the value __exit__ returns: True would swallow the block's exception
ExitSuppresses == FALSE

Close ==
  /\ cpc = "ready"
  /\ close
  /\ lastOp' = "close" /\ raised' = "none"
  /\ ForgetUpload
  /\ UNCHANGED <<nClients, verified, nVerify>>
  /\ leftBy' = "none"
  /\ UNCHANGED <<cpc, inWith, nOps, blockClients>>
  /\ UNCHANGED <<envVars, fnVars, cliVars>>

Enter ==
  /\ cpc = "ready"
  /\ ~inWith
  /\ inWith' = TRUE
  /\ blockClients' = {}
  /\ lastOp' = "enter" /\ raised' = "none"
  /\ ForgetUpload
  /\ leftBy' = "none"
  /\ UNCHANGED <<cpc, nOps>>
  /\ UNCHANGED <<envVars, fnVars, objVars>>
  /\ Caller("enter", "upload")
  /\ UNCHANGED <<cliExc, dropbox_path, exitCode>>

\* main() leaves its with statement (lines 125-130 of __main__.py): by the
\* exception upload() raised, or with the path it returned in dropbox_path
MainLeavesWith(blockRaised) ==
  IF cliPc = "lib" THEN UNCHANGED <<cliPc, cliExc, dropbox_path>>
  ELSE /\ cliPc = "leave"
       /\ blockRaised = (raised # "none")
       /\ cliPc' = "handlers"
       /\ cliExc' = (IF ExitSuppresses THEN "none" ELSE raised)
       /\ dropbox_path' = returned

\* the with block is left; blockRaised: it is left by an exception
Exit(blockRaised) ==
  /\ cpc = "ready"
  /\ inWith
  /\ close
  /\ inWith' = FALSE
  /\ lastOp' = "exit"
  /\ leftBy' = IF blockRaised THEN "exception" ELSE "normal"
  /\ raised' = IF blockRaised /\ ~ExitSuppresses THEN "BlockException"
               ELSE "none"
  /\ ForgetUpload
  /\ UNCHANGED <<nClients, verified, nVerify>>
  /\ UNCHANGED <<cpc, nOps, blockClients>>
  /\ UNCHANGED <<envVars, fnVars>>
  /\ MainLeavesWith(blockRaised)
  /\ UNCHANGED exitCode

\* ---------------------------------------------------------------------------
\* upload(): prologue (lines 285-305)
\* ---------------------------------------------------------------------------
\* variant: the is_file() test left out
IsRegularFile_ExistsOnly(kind) == kind # "missing"

\* exists() and is_file() both hold (lines 288-292)
IsRegularFile(kind) == kind = "file"

UploadNotFound(ow) ==
  /\ cpc = "ready" /\ OpsLeft
  /\ ~IsRegularFile(fileKind)
  /\ FreshUpload("done", ow, 0, 0, "FileNotFoundError")
  /\ nOps' = nOps + 1 /\ lastOp' = "upload"
  /\ raised' = "FileNotFoundError"
  /\ leftBy' = "none"
  /\ UNCHANGED <<cpc, inWith, blockClients>>
  /\ UNCHANGED <<envVars, fnVars, cliVars, objVars>>

UploadBegin(ow) ==
  /\ cpc = "ready" /\ OpsLeft
  /\ IsRegularFile(fileKind)
  /\ FreshUpload("try", ow, st_size, 1, "none")
  /\ cpc' = "uploading"
  /\ nOps' = nOps + 1 /\ lastOp' = "upload" /\ raised' = "none"
  /\ leftBy' = "none"
  /\ UNCHANGED <<inWith, blockClients>>
  /\ UNCHANGED <<envVars, fnVars, objVars>>
  /\ Caller("upload", "leave")
  /\ UNCHANGED <<cliExc, dropbox_path, exitCode>>

\* ---------------------------------------------------------------------------
\* one attempt: strategy dispatch (lines 306-312) and open() (171, 199)
\* ---------------------------------------------------------------------------
\* variant: the threshold itself excluded
UseSmallFile_Strict(size) == size < SMALL_FILE_LIMIT

\* line 309
UseSmallFile(size) == size <= SMALL_FILE_LIMIT

\* variant: the read position and the cursor of the attempt before are kept
Dispatch_Resumes(s, first) ==
  /\ upc = "try"
  /\ upc' = "call"
  /\ strategy' = s
  /\ strategies' = strategies \cup {s}
  /\ nextCall' = first
  /\ handleOpen' = TRUE
  /\ UNCHANGED <<tell, cursor>>
  /\ exc' = "none"
  /\ attemptsStarted' = attemptsStarted + 1
  /\ calls' = NoCalls /\ bytesSent' = 0 /\ maxCallBytes' = 0
  /\ gotClient' = FALSE
  /\ UNCHANGED <<overwrite, file_size, attempt, last_error, result, outVars>>
  /\ UNCHANGED <<delays, backendTouched, commits>>
  /\ UNCHANGED <<envVars, fnVars, cliVars, objVars, callerVars>>

\* an attempt begins: the strategy function is entered and opens the file
\* (lines 169-171, 197-199); cursor and read position are its locals
Dispatch(s, first) ==
  /\ upc = "try"
  /\ upc' = "call"
  /\ strategy' = s
  /\ strategies' = strategies \cup {s}
  /\ nextCall' = first
  /\ handleOpen' = TRUE
  /\ tell' = 0
  /\ cursor' = NoCursor
  /\ exc' = "none"
  /\ attemptsStarted' = attemptsStarted + 1
  /\ calls' = NoCalls /\ bytesSent' = 0 /\ maxCallBytes' = 0
  /\ gotClient' = FALSE
  /\ UNCHANGED <<overwrite, file_size, attempt, last_error, result, outVars>>
  /\ UNCHANGED <<delays, backendTouched, commits>>
  /\ UNCHANGED <<envVars, fnVars, cliVars, objVars, callerVars>>

DispatchSmall == UseSmallFile(file_size) /\ Dispatch("small", "upload")

\* variant: the session is not started before the chunk loop
DispatchLarge_SkipsStart ==
  ~UseSmallFile(file_size) /\ Dispatch("large", "append")

DispatchLarge == ~UseSmallFile(file_size) /\ Dispatch("large", "start")

\* variant: the file stays open when the attempt raises
AttemptRaises_LeavesOpen(e) ==
  /\ exc' = e
  /\ upc' = "except"
  /\ UNCHANGED handleOpen

\* the attempt ends with exception e leaving the 'with open' block
AttemptRaises(e) ==
  /\ exc' = e
  /\ upc' = "except"
  /\ handleOpen' = FALSE

\* the remote path upload() computed (lines 294-296), and the display paths
\* the backend may report for the file it stored there
TargetPath == "/Docs/Report.md"
DisplayPaths == {TargetPath, "/docs/report.md"}

\* variant: the locally computed path is returned
ReturnedPath_Local(display, local) == local

\* line 315: the value returned, given the metadata's path_display and the
\* locally computed dropbox_path
ReturnedPath(display, local) == display

\* variant: the mode is overwrite whatever the flag
WriteModeFor_AlwaysOverwrite(ow) == "overwrite"

\* lines 169 and 197: mode = WriteMode.overwrite if overwrite else WriteMode.add
WriteModeFor(ow) == IF ow THEN "overwrite" ELSE "add"

\* the path and mode given to files_upload (lines 172-176) and, as CommitInfo
\* (line 207), to files_upload_session_finish
CommitArgs(ow) == [path |-> TargetPath, mode |-> WriteModeFor(ow)]

\* the backend call returned metadata with path_display p, and upload()
\* returns (lines 313-315)
UploadReturns(p) ==
  /\ metadata' = p
  /\ returned' = ReturnedPath(p, TargetPath)
  /\ cause' = "none"
  /\ result' = "returned"
  /\ upc' = "done"
  /\ cpc' = "ready"
  /\ raised' = "none"
  /\ handleOpen' = FALSE

\* upload() raises e to its caller, c the exception its message quotes
UploadRaises(e, c) ==
  /\ result' = e
  /\ cause' = c
  /\ UNCHANGED <<returned, metadata>>
  /\ upc' = "done"
  /\ cpc' = "ready"
  /\ raised' = e

\* self.client inside an attempt, self._client None, no credentials (106-111)
UploadClientNoCredentials ==
  /\ upc = "call" /\ client = 0 /\ creds = "none"
  /\ AttemptRaises("AuthenticationError")
  /\ UNCHANGED <<overwrite, file_size, attempt, strategy, nextCall, tell,
                 cursor, last_error, result, outVars>>
  /\ UNCHANGED obsVars
  /\ UNCHANGED <<envVars, fnVars, cliVars, objVars, callerVars>>

\* self.client inside an attempt, self._client None: build, store, verify
UploadClientCreate(o) ==
  /\ upc = "call"
  /\ LazyClient(o)
  /\ backendTouched' = TRUE
  /\ IF VerifyConnection(o) = "none"
       THEN /\ gotClient' = TRUE
            /\ UNCHANGED <<upc, exc, handleOpen>>
       ELSE /\ AttemptRaises(VerifyConnection(o))
            /\ UNCHANGED gotClient
  /\ UNCHANGED <<overwrite, file_size, attempt, strategy, nextCall, tell,
                 cursor, last_error, result, outVars>>
  /\ UNCHANGED <<attemptsStarted, delays, commits, strategies, calls, bytesSent,
                 maxCallBytes>>
  /\ UNCHANGED <<cpc, inWith, nOps, lastOp, raised, leftBy>>
  /\ UNCHANGED <<envVars, fnVars, cliVars>>

\* ---------------------------------------------------------------------------
\* the backend calls of an attempt
\* ---------------------------------------------------------------------------
\* f.read(n): the bytes left on disk, at most n
ReadLen(n) == Min(n, diskLen - tell)

\* the call of kind k carrying n bytes is issued through the held client
Issue(k, n) ==
  /\ client # 0
  /\ gotClient' = TRUE
  /\ backendTouched' = TRUE
  /\ calls' = [calls EXCEPT ![k] = @ + 1]
  /\ bytesSent' = bytesSent + n
  /\ maxCallBytes' = Max(maxCallBytes, n)

\* _upload_small_file (lines 169-176): files_upload(f.read(), path, mode)
FilesUpload(o) ==
  /\ upc = "call" /\ nextCall = "upload"
  /\ Issue("upload", diskLen)
  /\ tell' = diskLen
  /\ IF o = "ok"
       THEN (\E p \in DisplayPaths : UploadReturns(p)) /\ UNCHANGED exc
       ELSE AttemptRaises(o) /\ UNCHANGED <<result, outVars, cpc, raised>>
  /\ UNCHANGED <<overwrite, file_size, attempt, strategy, nextCall, cursor,
                 last_error>>
  /\ commits' = commits \cup {CommitArgs(overwrite)}
  /\ UNCHANGED <<attemptsStarted, delays, strategies>>
  /\ UNCHANGED <<inWith, nOps, lastOp, leftBy, blockClients>>
  /\ UNCHANGED <<envVars, fnVars, cliVars, objVars>>

\* the loop test and the branch of the chunk loop (lines 209-212) with the
\* read position at pos: the call issued next, "eof" when the loop ends
\* variant: a remainder of exactly one chunk is not final
IsFinalChunk_Strict(remaining) == remaining < CHUNK_SIZE

IsFinalChunk(remaining) == remaining <= CHUNK_SIZE

LoopNext(pos) ==
  IF pos < file_size
    THEN IF IsFinalChunk(file_size - pos) THEN "finish" ELSE "append"
    ELSE "eof"

\* the opaque session id the backend returns to the start call of attempt a:
\* every session gets an id of its own, and 0 is no session
SessionId(a) == a

\* lines 201-206: files_upload_session_start(f.read(CHUNK_SIZE)), the cursor
SessionStart(o) ==
  /\ upc = "call" /\ nextCall = "start"
  /\ Issue("start", ReadLen(CHUNK_SIZE))
  /\ tell' = tell + ReadLen(CHUNK_SIZE)
  /\ IF o = "ok"
       THEN /\ cursor' = [session_id |-> SessionId(attempt), offset |-> tell']
            /\ nextCall' = LoopNext(tell')
            /\ UNCHANGED <<upc, exc, handleOpen>>
       ELSE /\ AttemptRaises(o)
            /\ UNCHANGED <<cursor, nextCall>>
  /\ UNCHANGED <<overwrite, file_size, attempt, strategy, last_error, result,
                 outVars>>
  /\ UNCHANGED <<attemptsStarted, delays, strategies, commits>>
  /\ UNCHANGED <<envVars, fnVars, cliVars, objVars, callerVars>>

\* variant: the cursor is not advanced after an append
AdvanceCursor_Stale(c, pos) == c

\* line 225: cursor.offset = f.tell()
AdvanceCursor(c, pos) == [c EXCEPT !.offset = pos]

\* lines 221-225: files_upload_session_append_v2(f.read(CHUNK_SIZE), cursor)
SessionAppend(o) ==
  /\ upc = "call" /\ nextCall = "append"
  /\ calls.append < AppendCap
  /\ Issue("append", ReadLen(CHUNK_SIZE))
  /\ tell' = tell + ReadLen(CHUNK_SIZE)
  /\ IF o = "ok"
       THEN /\ cursor' = AdvanceCursor(cursor, tell')
            /\ nextCall' = LoopNext(tell')
            /\ UNCHANGED <<upc, exc, handleOpen>>
       ELSE /\ AttemptRaises(o)
            /\ UNCHANGED <<cursor, nextCall>>
  /\ UNCHANGED <<overwrite, file_size, attempt, strategy, last_error, result,
                 outVars>>
  /\ UNCHANGED <<attemptsStarted, delays, strategies, commits>>
  /\ UNCHANGED <<envVars, fnVars, cliVars, objVars, callerVars>>

\* lines 214-218: files_upload_session_finish(f.read(remaining), cursor, commit)
SessionFinish(o) ==
  /\ upc = "call" /\ nextCall = "finish"
  /\ Issue("finish", ReadLen(file_size - tell))
  /\ tell' = tell + ReadLen(file_size - tell)
  /\ IF o = "ok"
       THEN (\E p \in DisplayPaths : UploadReturns(p)) /\ UNCHANGED exc
       ELSE AttemptRaises(o) /\ UNCHANGED <<result, outVars, cpc, raised>>
  /\ UNCHANGED <<overwrite, file_size, attempt, strategy, nextCall, cursor,
                 last_error>>
  /\ commits' = commits \cup {CommitArgs(overwrite)}
  /\ UNCHANGED <<attemptsStarted, delays, strategies>>
  /\ UNCHANGED <<inWith, nOps, lastOp, leftBy, blockClients>>
  /\ UNCHANGED <<envVars, fnVars, cliVars, objVars>>

\* variant: the function ends without the raise and so returns
UnexpectedEndOfFile_Returns ==
  /\ upc = "call" /\ nextCall = "eof"
  /\ UploadReturns(TargetPath)
  /\ UNCHANGED <<overwrite, file_size, attempt, strategy, nextCall, tell,
                 cursor, last_error, exc>>
  /\ UNCHANGED obsVars
  /\ UNCHANGED <<inWith, nOps, lastOp, leftBy, blockClients>>
  /\ UNCHANGED <<envVars, fnVars, cliVars, objVars>>

\* line 229: the chunk loop ended without a finish call.  upload() calls
\* _upload_large_file only with file_size > SMALL_FILE_LIMIT >= CHUNK_SIZE, for
\* which LoopNext never yields "eof" (TypeOK), so Next does not list this
\* step; NextLargeDirect, where the function is called on its own, does
UnexpectedEndOfFile ==
  /\ upc = "call" /\ nextCall = "eof"
  /\ AttemptRaises("UploadError")
  /\ UNCHANGED <<overwrite, file_size, attempt, strategy, nextCall, tell,
                 cursor, last_error, result, outVars>>
  /\ UNCHANGED obsVars
  /\ UNCHANGED <<envVars, fnVars, cliVars, objVars, callerVars>>

\* ---------------------------------------------------------------------------
\* the except clauses of the retry loop (lines 317-354), the end of the loop
\* (line 356)
\* ---------------------------------------------------------------------------
\* exceptions that reach the except clauses: the outcomes of backend calls,
\* and the uploader's own AuthenticationError / DropboxUploaderError (raised
\* by the client property) and UploadError (line 229).
\* variant: the catch-all clause placed before the ApiError clause
Handler_CatchAllFirst(e) ==
  IF e = "AuthError" THEN "AuthError" ELSE "Exception"

\* Handler(e): the first except clause that matches exception e
Handler(e) ==
  IF e = "AuthError" THEN "AuthError"
  ELSE IF e \in ApiErrors THEN "ApiError"
  ELSE IF e \in ConnectionErrors THEN "ConnectionError"
  ELSE "Exception"

\* variant: the loop runs one iteration too many
HasNextAttempt_OneMore(a) == a <= MAX_RETRIES

\* the for loop has another iteration after attempt a
HasNextAttempt(a) == a < MAX_RETRIES

\* what a clause does: "continue" (fall to the end of the loop body),
\* "sleep" (time.sleep, then the end of the loop body), or the exception
\* upload() raises
\* lines 317-318
AuthErrorAction == "AuthenticationError"

\* variant: a path conflict is retried whatever the overwrite flag
ApiErrorAction_ConflictRetried(e, ow, a) ==
  IF e = "ApiConflict" THEN "continue"
  ELSE IF e = "ApiSpace" THEN "UploadError"
  ELSE IF a < MAX_RETRIES THEN "sleep"
  ELSE "UploadError"

\* lines 320-338
ApiErrorAction(e, ow, a) ==
  IF e = "ApiConflict"
    THEN IF ow THEN "continue" ELSE "UploadError"
  ELSE IF e = "ApiSpace" THEN "UploadError"
  ELSE IF a < MAX_RETRIES THEN "sleep"
  ELSE "UploadError"

\* variant: a connection failure is never retried
ConnectionErrorAction_NoRetry(e, a) == "UploadError"

\* lines 340-346
ConnectionErrorAction(e, a) == IF a < MAX_RETRIES THEN "sleep" ELSE "UploadError"

\* variant: the last attempt re-raises the exception it caught
ExceptionAction_Reraise(e, a) == IF a < MAX_RETRIES THEN "sleep" ELSE e

\* lines 348-354
ExceptionAction(e, a) == IF a < MAX_RETRIES THEN "sleep" ELSE "UploadError"

\* the exception quoted in the message of the error a clause raises for e:
\* lines 329 and 332 use a fixed text, lines 318, 338, 346 and 354 quote e
MessageCause(e, ow) ==
  IF e = "ApiConflict" /\ ~ow THEN "none"
  ELSE IF e = "ApiSpace" THEN "none"
  ELSE e

\* the end of the loop body: the next iteration, or line 356 after the last
EndOfIteration ==
  IF HasNextAttempt(attempt)
    THEN /\ attempt' = attempt + 1
         /\ upc' = "try"
         /\ UNCHANGED <<result, outVars, cpc, raised>>
    ELSE /\ UploadRaises("UploadError", last_error')
         /\ UNCHANGED attempt

\* the effect of a clause that decided act
Apply(act) ==
  /\ IF act = "continue" THEN EndOfIteration
     ELSE IF act = "sleep"
       THEN /\ upc' = "sleep"
            /\ UNCHANGED <<attempt, result, outVars, cpc, raised>>
     ELSE /\ UploadRaises(act, MessageCause(exc, overwrite))
          /\ UNCHANGED attempt
  /\ UNCHANGED <<overwrite, file_size, strategy, nextCall, handleOpen, tell,
                 cursor, exc>>
  /\ UNCHANGED obsVars
  /\ UNCHANGED <<inWith, nOps, lastOp, leftBy, blockClients>>
  /\ UNCHANGED <<envVars, fnVars, cliVars, objVars>>

ExceptAuthError ==
  /\ upc = "except" /\ Handler(exc) = "AuthError"
  /\ UNCHANGED last_error
  /\ Apply(AuthErrorAction)

ExceptApiError ==
  /\ upc = "except" /\ Handler(exc) = "ApiError"
  /\ last_error' = exc
  /\ Apply(ApiErrorAction(exc, overwrite, attempt))

ExceptConnectionError ==
  /\ upc = "except" /\ Handler(exc) = "ConnectionError"
  /\ last_error' = exc
  /\ Apply(ConnectionErrorAction(exc, attempt))

ExceptException ==
  /\ upc = "except" /\ Handler(exc) = "Exception"
  /\ last_error' = exc
  /\ Apply(ExceptionAction(exc, attempt))

\* time.sleep(RETRY_DELAY) returns (lines 336, 344, 352)
Sleep ==
  /\ upc = "sleep"
  /\ delays' = delays + 1
  /\ UNCHANGED last_error
  /\ EndOfIteration
  /\ UNCHANGED <<overwrite, file_size, strategy, nextCall, handleOpen, tell,
                 cursor, exc>>
  /\ UNCHANGED <<attemptsStarted, strategies, calls, bytesSent, maxCallBytes,
                 gotClient, backendTouched, commits>>
  /\ UNCHANGED <<inWith, nOps, lastOp, leftBy, blockClients>>
  /\ UNCHANGED <<envVars, fnVars, cliVars, objVars>>

\* ---------------------------------------------------------------------------
\* the specification
\* ---------------------------------------------------------------------------
Failures == Outcomes \ {"ok"}

Next ==
  \/ Construct
  \/ ClientAccessHeld
  \/ ClientAccessNoCredentials
  \/ \E o \in Outcomes : ClientAccessCreate(o)
  \/ Close
  \/ Enter
  \/ \E b \in BOOLEAN : Exit(b)
  \/ \E ow \in BOOLEAN : UploadNotFound(ow)
  \/ \E ow \in BOOLEAN : UploadBegin(ow)
  \/ DispatchSmall
  \/ DispatchLarge
  \/ UploadClientNoCredentials
  \/ \E o \in Outcomes : UploadClientCreate(o)
  \/ \E o \in Outcomes : FilesUpload(o)
  \/ \E o \in Outcomes : SessionStart(o)
  \/ \E o \in Outcomes : SessionAppend(o)
  \/ \E o \in Outcomes : SessionFinish(o)
  \/ ExceptAuthError
  \/ ExceptApiError
  \/ ExceptConnectionError
  \/ ExceptException
  \/ Sleep

Spec == Init /\ [][Next]_vars

TypeOK ==
  /\ creds \in Credentials /\ fileKind \in FileKinds
  /\ client \in 0..nClients /\ verified \subseteq 1..nClients
  /\ Len(closeCalls) = nClients
  /\ cpc \in {"new", "ready", "uploading"}
  /\ upc \in {"idle", "try", "call", "except", "sleep", "done"}
  /\ attempt \in 0..MAX_RETRIES
  /\ nextCall # "eof"
  /\ result \in {"none", "returned", "FileNotFoundError",
                 "AuthenticationError", "UploadError"}

\* ---------------------------------------------------------------------------
\* properties
\* ---------------------------------------------------------------------------
\* an attempt of the running (or last) upload() call has ended
AttemptEnded ==
  attemptsStarted >= 1 /\ upc \in {"except", "sleep", "try", "done"}

\* the exception in flight reports rejected or missing credentials: AuthError
\* from a backend call, AuthenticationError from the client property
AuthRejected == exc \in {"AuthError", "AuthenticationError"}

\* C1: once a backend call of an upload() is rejected for authentication
\* reasons (an upload or session call, the identity verification of a lazily
\* created client, or no credentials at all), upload() ends there with
\* AuthenticationError: no sleep, no further attempt, never UploadError.
C1_AuthRejectionFailsImmediately ==
  AuthRejected =>
    /\ upc \in {"except", "done"}
    /\ upc = "done" => result = "AuthenticationError"

\* C2: an upload() call starts at most 3 attempts, whatever the backend does.
C2_AtMostThreeAttempts == attemptsStarted <= 3

C2_Witness ==
  upc = "done" /\ result = "UploadError" /\ attemptsStarted = 3

\* C3: while attempt k runs exactly k - 1 delays have been observed (one
\* between any two consecutive attempts), and an upload() that returns after
\* k attempts observed exactly k - 1 delays (2 when the third succeeds).
C3_OneDelayBetweenAttempts ==
  /\ upc = "call" => delays = attemptsStarted - 1
  /\ result = "returned" => delays = attemptsStarted - 1

\* C4: upload() of a path that is missing or not a regular file ends at once
\* with FileNotFoundError: no attempt, no delay, no client built, no
\* verification, no upload or session call.
C4_NotFoundNoBackendCall ==
  (lastOp = "upload" /\ fileKind # "file") =>
    /\ upc = "done" /\ cpc = "ready"
    /\ result = "FileNotFoundError" /\ raised = "FileNotFoundError"
    /\ ~backendTouched /\ calls = NoCalls
    /\ attemptsStarted = 0 /\ delays = 0

C4_Witness ==
  lastOp = "upload" /\ fileKind = "dir" /\ result = "FileNotFoundError"

\* C5: with overwrite disabled a path conflict ends upload() on the attempt it
\* occurs in, with UploadError: no sleep and no further attempt follow.
C5_ConflictWithoutOverwriteFails ==
  (exc = "ApiConflict" /\ ~overwrite) =>
    /\ upc \in {"except", "done"}
    /\ upc = "done" => result = "UploadError"

C5_Witness ==
  /\ upc = "done" /\ exc = "ApiConflict" /\ ~overwrite
  /\ result = "UploadError" /\ attemptsStarted = 2 /\ delays = 1

\* C6 as stated: every attempt takes the small-file path iff the recorded
\* size is <= 150 MiB; every small-file attempt issues exactly one
\* whole-file upload call and no session call; a large-file attempt issues
\* no whole-file upload call; all attempts of a call use one strategy.
C6_SmallAttemptAlwaysUploadsOnce ==
  attemptsStarted >= 1 =>
    /\ strategy = (IF file_size <= 157286400 THEN "small" ELSE "large")
    /\ strategies = {strategy}
    /\ file_size = st_size
    /\ strategy = "large" => calls.upload = 0
    /\ strategy = "small" =>
         /\ calls.start = 0 /\ calls.append = 0 /\ calls.finish = 0
         /\ AttemptEnded => calls.upload = 1

\* C6 amended: as above, but a small-file attempt issues at most one
\* whole-file upload call: exactly one when it obtains the client, none when
\* the client property raises (no credentials, verification failed).
C6_StrategyBySize ==
  attemptsStarted >= 1 =>
    /\ strategy = (IF file_size <= 157286400 THEN "small" ELSE "large")
    /\ strategies = {strategy}
    /\ file_size = st_size
    /\ strategy = "large" => calls.upload = 0
    /\ strategy = "small" =>
         /\ calls.start = 0 /\ calls.append = 0 /\ calls.finish = 0
         /\ calls.upload <= 1
         /\ AttemptEnded => calls.upload = (IF gotClient THEN 1 ELSE 0)

C6_Witness ==
  /\ AttemptEnded /\ file_size = 157286400 /\ strategy = "small"
  /\ calls.upload = 1 /\ attemptsStarted = 2

\* C7: in a large-file attempt on a file that holds the recorded s bytes, no
\* call carries more than chunk_size bytes, at most one start and one finish
\* call and at most floor((s-1)/chunk_size) - 1 append calls are issued, and
\* an attempt that ends with no backend call having failed issued exactly one
\* start, floor((s-1)/chunk_size) - 1 appends and one finish carrying s bytes
\* in total.
C7_ChunkCounts ==
  (attemptsStarted >= 1 /\ strategy = "large" /\ diskLen = file_size) =>
    /\ maxCallBytes <= CHUNK_SIZE
    /\ calls.start <= 1 /\ calls.finish <= 1
    /\ calls.append <= ((file_size - 1) \div CHUNK_SIZE) - 1
    /\ bytesSent <= file_size
    /\ (AttemptEnded /\ exc \in {"none", "UploadError"}) =>
         /\ calls.start = 1
         /\ calls.append = ((file_size - 1) \div CHUNK_SIZE) - 1
         /\ calls.finish = 1
         /\ bytesSent = file_size

C7_Witness ==
  /\ result = "returned" /\ strategy = "large" /\ diskLen = file_size
  /\ file_size = 38 * CHUNK_SIZE /\ calls.append = 36 /\ attemptsStarted = 3

\* C8: upload() ends only by returning or by raising FileNotFoundError,
\* AuthenticationError or UploadError, whatever a backend call or the client
\* property raised.
C8_OnlyTypedErrorsEscape ==
  (lastOp = "upload" /\ cpc = "ready") =>
    /\ upc = "done"
    /\ result \in {"returned", "FileNotFoundError", "AuthenticationError",
                   "UploadError"}
    /\ raised = (IF result = "returned" THEN "none" ELSE result)

C8_Witness ==
  /\ upc = "done" /\ result = "UploadError" /\ attemptsStarted = 3
  /\ exc \in {"OtherException", "AuthenticationError"}

\* C9: constructing the uploader with no credentials available raises
\* AuthenticationError, so no uploader exists on which upload() can be called.
C9_ConstructorRejectsMissingCredentials ==
  (lastOp = "init" /\ creds = "none") =>
    raised = "AuthenticationError" /\ cpc = "new"

\* C10: when a with block has been left, the uploader holds no client, every
\* client built inside the block received exactly one close call, no client
\* ever received more than one, an exception that left the block reaches the
\* caller, and no close call was made if no client was ever built.
C10_ExitClosesOnce ==
  lastOp = "exit" =>
    /\ client = 0
    /\ \A c \in blockClients : closeCalls[c] = 1
    /\ \A c \in 1..nClients : closeCalls[c] <= 1
    /\ leftBy = "exception" => raised = "BlockException"
    /\ leftBy = "normal" => raised = "none"
    /\ nClients = 0 => nClose = 0

C10_Witness ==
  /\ lastOp = "exit" /\ leftBy = "exception" /\ raised = "BlockException"
  /\ blockClients # {} /\ nClose >= 1

\* C12: when upload() returns, the value it returns is the display path of
\* the metadata the backend returned to the call that succeeded (the attempt
\* that returned raised nothing), whether or not that equals the path computed
\* locally; until then no metadata is held and nothing is returned.
C12_ReturnsBackendDisplayPath ==
  /\ result = "returned" =>
       /\ metadata \in DisplayPaths
       /\ returned = metadata
       /\ exc = "none"
       /\ calls.upload + calls.finish = 1
  /\ result # "returned" => metadata = "none" /\ returned = "none"

C12_Witness ==
  /\ result = "returned" /\ attemptsStarted = 2
  /\ returned = metadata /\ returned # TargetPath

\* the failure in flight is one the except clauses classify retryable: a path
\* conflict with overwrite enabled, another API error, a connection error, a
\* timeout, or any other exception
Retryable ==
  \/ exc = "ApiConflict" /\ overwrite
  \/ exc \in {"ApiOther", "ConnectionError", "TimeoutError", "OtherException",
              "DropboxUploaderError"}

\* C15: after a retryable failure of attempt k < 3, upload() has not ended:
\* it stands in the delay or at the start of attempt k + 1, and all attempts
\* take the same strategy; after a retryable failure of attempt 3 upload() has
\* raised UploadError quoting the failure of that attempt, having started
\* exactly 3 attempts, and there is no delay after attempt 3.
C15_RetryableFailureRetriedOrWrapped ==
  /\ upc = "sleep" => attempt < MAX_RETRIES
  /\ delays <= MAX_RETRIES - 1
  /\ Cardinality(strategies) <= 1
  /\ (Retryable /\ upc = "except") => attempt = attemptsStarted
  /\ (Retryable /\ upc = "sleep") => attempt = attemptsStarted
  /\ (Retryable /\ upc = "try") =>
       attempt = attemptsStarted + 1 /\ attempt <= MAX_RETRIES
  /\ (Retryable /\ upc = "done") =>
       /\ attemptsStarted = MAX_RETRIES /\ attempt = MAX_RETRIES
       /\ result = "UploadError" /\ raised = "UploadError"
       /\ cause = exc

C15_Witness ==
  /\ upc = "done" /\ exc = "ApiConflict" /\ overwrite
  /\ result = "UploadError" /\ cause = "ApiConflict"
  /\ attemptsStarted = 3 /\ delays = 1

\* C16: once the backend reports insufficient space, upload() makes no delay
\* and starts no further attempt: it ends on that attempt with UploadError,
\* with overwrite enabled or not.
C16_InsufficientSpaceFailsAtOnce ==
  exc = "ApiSpace" =>
    /\ upc \in {"except", "done"}
    /\ attempt = attemptsStarted
    /\ upc = "done" => result = "UploadError" /\ raised = "UploadError"

C16_Witness ==
  /\ exc = "ApiSpace" /\ upc = "done" /\ overwrite
  /\ result = "UploadError" /\ attemptsStarted = 2 /\ delays = 1

\* C17: the uploader builds a client, and verifies an identity, at most once
\* more than it has closed clients (so at most once between closes, failed
\* calls and retried attempts included), and none before the first
\* operation after construction.
C17_ClientBuiltLazilyAtMostOnce ==
  /\ nClients <= nClose + 1
  /\ nVerify <= nClose + 1
  /\ nVerify = nClients
  /\ lastOp \in {"none", "init"} => nClients = 0 /\ client = 0
  /\ nClients > 0 => nOps >= 1

C17_Witness ==
  /\ nOps = 2 /\ lastOp = "upload" /\ upc = "done" /\ attemptsStarted = 3
  /\ nClients = 1 /\ nVerify = 1 /\ nClose = 0 /\ client = 1
  /\ verified = {}

\* C19: in an attempt, an append or finish call is issued, or about to be,
\* only after the one start call returned a session id; at most one finish
\* call is issued, and once it is issued the attempt issues no further call.
C19_SessionCallOrder ==
  /\ calls.start <= 1 /\ calls.finish <= 1
  /\ (calls.append > 0 \/ calls.finish > 0) =>
       calls.start = 1 /\ cursor.session_id # 0
  /\ (upc = "call" /\ nextCall \in {"append", "finish"}) =>
       calls.start = 1 /\ cursor.session_id # 0
  /\ (upc = "call" /\ strategy = "large" /\ calls.start = 0) =>
       nextCall = "start"
  /\ calls.finish = 1 => upc # "call"

C19_Witness ==
  /\ upc = "except" /\ exc = "ApiOther"
  /\ calls = [upload |-> 0, start |-> 1, append |-> 36, finish |-> 1]

\* C20: whenever an append or finish call is about to be issued, the cursor
\* holds the session id the start call of this attempt returned and an offset
\* equal to the bytes carried by the calls of the attempt so far (which is
\* also the read position of the file).
C20_CursorTracksBytesSent ==
  (upc = "call" /\ nextCall \in {"append", "finish"}) =>
    /\ cursor.session_id = SessionId(attempt)
    /\ cursor.offset = bytesSent
    /\ cursor.offset = tell

C20_Witness ==
  /\ upc = "call" /\ nextCall = "finish" /\ attempt = 2
  /\ cursor = [session_id |-> SessionId(2), offset |-> 37 * CHUNK_SIZE]
  /\ bytesSent = 37 * CHUNK_SIZE

\* ---------------------------------------------------------------------------
\* the path helpers: strings are sequences of one-character strings
\* ---------------------------------------------------------------------------
MaxPathLen == 5
MaxRestLen == 3

\* s.startswith(p)
StartsWith(s, p) == Len(s) >= Len(p) /\ SubSeq(s, 1, Len(p)) = p

\* p in s
Contains(s, p) ==
  \E i \in 1..(Len(s) - Len(p) + 1) : SubSeq(s, i, i + Len(p) - 1) = p

\* s.replace(old, new): every occurrence of old, found left to right without
\* overlap, becomes new
RECURSIVE Replace(_, _, _)
Replace(s, old, new) ==
  IF Len(s) < Len(old) THEN s
  ELSE IF SubSeq(s, 1, Len(old)) = old
    THEN new \o Replace(SubSeq(s, Len(old) + 1, Len(s)), old, new)
  ELSE <<Head(s)>> \o Replace(Tail(s), old, new)

\* lines 140-142
EnsureLeadingSlash(path) ==
  IF StartsWith(path, <<"/">>) THEN path ELSE <<"/">> \o path

\* line 145
ReplaceBackslashes(path) == Replace(path, <<"\\">>, <<"/">>)

\* variant: one replace call instead of the loop
CollapseSlashes_OnePass(path) == Replace(path, <<"/", "/">>, <<"/">>)

\* lines 147-149
RECURSIVE CollapseSlashes(_)
CollapseSlashes(path) ==
  IF Contains(path, <<"/", "/">>)
    THEN CollapseSlashes(Replace(path, <<"/", "/">>, <<"/">>))
    ELSE path

\* variant: the backslashes are replaced after the slashes are collapsed
_normalize_dropbox_path_ReplaceLast(path) ==
  ReplaceBackslashes(CollapseSlashes(EnsureLeadingSlash(path)))

\* _normalize_dropbox_path (lines 129-150)
_normalize_dropbox_path(path) ==
  CollapseSlashes(ReplaceBackslashes(EnsureLeadingSlash(path)))

\* the strings handed to _normalize_dropbox_path
PathChars == {"/", "\\", "a"}
PathInputs == UNION {[1..n -> PathChars] : n \in 0..MaxPathLen}

\* the process calls only a path helper: no credentials, no file, no uploader
HelperOnly ==
  /\ creds = "none" /\ fileKind = "missing" /\ st_size = 0 /\ diskLen = 0
  /\ NoUploader
  /\ MainAt("lib")

InitNormalize ==
  /\ HelperOnly
  /\ fnPc = "input" /\ fnIn \in PathInputs /\ fnOut = << >>

\* _normalize_dropbox_path(fnIn) returns
Normalize ==
  /\ fnPc = "input"
  /\ fnOut' = _normalize_dropbox_path(fnIn)
  /\ fnPc' = "normalized"
  /\ UNCHANGED fnIn
  /\ UNCHANGED <<envVars, objVars, callerVars, uplVars, obsVars, cliVars>>

\* the result is normalized once more
NormalizeAgain ==
  /\ fnPc = "normalized"
  /\ fnIn' = fnOut
  /\ fnOut' = _normalize_dropbox_path(fnOut)
  /\ fnPc' = "renormalized"
  /\ UNCHANGED <<envVars, objVars, callerVars, uplVars, obsVars, cliVars>>

NextNormalize == Normalize \/ NormalizeAgain

SpecNormalize == InitNormalize /\ [][NextNormalize]_vars

\* C13: whatever the input, the string _normalize_dropbox_path returns starts
\* with '/', its second character is not '/', and it holds neither '//' nor a
\* backslash.
C13_NormalizedPathCanonical ==
  fnPc = "normalized" =>
    /\ Len(fnOut) >= 1 /\ fnOut[1] = "/"
    /\ Len(fnOut) >= 2 => fnOut[2] # "/"
    /\ \A i \in 1..(Len(fnOut) - 1) : ~(fnOut[i] = "/" /\ fnOut[i + 1] = "/")
    /\ \A i \in 1..Len(fnOut) : fnOut[i] # "\\"

C13_Witness ==
  /\ fnPc = "normalized"
  /\ fnIn = <<"\\", "/", "/", "/", "a">>
  /\ fnOut = <<"/", "a">>

\* C14: normalizing a normalized string returns it unchanged.
C14_NormalizeIdempotent ==
  fnPc = "renormalized" => fnOut = fnIn

C14_Witness ==
  /\ fnPc = "renormalized"
  /\ fnIn = <<"/", "a", "/", "a">> /\ fnOut = fnIn

\* ---------------------------------------------------------------------------
\* _resolve_local_path (lines 231-260): the rewriting of path_str
\* ---------------------------------------------------------------------------
LowerCase == <<"c", "d", "e", "g", "i", "r", "v", "y">>
UpperCase == <<"C", "D", "E", "G", "I", "R", "V", "Y">>

\* ch.isalpha(), for the characters used here
IsAlpha(ch) == \E i \in 1..Len(LowerCase) : ch \in {LowerCase[i], UpperCase[i]}

\* ch.upper()
Upper(ch) ==
  IF \E i \in 1..Len(LowerCase) : ch = LowerCase[i]
    THEN UpperCase[CHOOSE i \in 1..Len(LowerCase) : ch = LowerCase[i]]
    ELSE ch

Cygdrive == <<"/", "c", "y", "g", "d", "r", "i", "v", "e", "/">>

\* variant: the drive letter is copied as written
GitBashRewrite_KeepsCase(p) ==
  IF Len(p) >= 3 /\ p[1] = "/" /\ p[3] = "/" /\ IsAlpha(p[2])
    THEN <<p[2], ":">> \o SubSeq(p, 3, Len(p))
    ELSE p

\* lines 248-251: path_str[0] == '/', path_str[2] == '/', path_str[1] a letter
GitBashRewrite(p) ==
  IF Len(p) >= 3 /\ p[1] = "/" /\ p[3] = "/" /\ IsAlpha(p[2])
    THEN <<Upper(p[2]), ":">> \o SubSeq(p, 3, Len(p))
    ELSE p

\* lines 254-257: path_str[10] a letter; path_str[11] is not looked at
CygdriveRewrite(p) ==
  IF StartsWith(p, Cygdrive) /\ Len(p) >= 12 /\ IsAlpha(p[11])
    THEN <<Upper(p[11]), ":">> \o SubSeq(p, 12, Len(p))
    ELSE p

\* path_str as handed to Path(...).resolve() at line 259
RewriteLocalPath(p) == CygdriveRewrite(GitBashRewrite(p))

\* the drive of a path string read by the drive-letter convention
Drive(p) ==
  IF Len(p) >= 2 /\ IsAlpha(p[1]) /\ p[2] = ":" THEN SubSeq(p, 1, 2)
  ELSE << >>

\* the strings handed to _resolve_local_path: nothing, '/' or '/cygdrive/'
\* followed by up to MaxRestLen characters
RestChars == {"/", "c", "D", "1"}
LocalPathInputs ==
  {h \o r : h \in {<< >>, <<"/">>, Cygdrive},
            r \in UNION {[1..n -> RestChars] : n \in 0..MaxRestLen}}

InitResolve ==
  /\ HelperOnly
  /\ fnPc = "input" /\ fnIn \in LocalPathInputs /\ fnOut = << >>

\* _resolve_local_path(fnIn) has rewritten path_str
Rewrite ==
  /\ fnPc = "input"
  /\ fnOut' = RewriteLocalPath(fnIn)
  /\ fnPc' = "rewritten"
  /\ UNCHANGED fnIn
  /\ UNCHANGED <<envVars, objVars, callerVars, uplVars, obsVars, cliVars>>

NextResolve == Rewrite

SpecResolve == InitResolve /\ [][NextResolve]_vars

\* the argument has the form /<letter>/rest
GitBashForm(p) ==
  Len(p) >= 3 /\ p[1] = "/" /\ IsAlpha(p[2]) /\ p[3] = "/"

\* the argument has the form /cygdrive/<letter>/rest
CygdriveForm(p) ==
  /\ Len(p) >= 12 /\ SubSeq(p, 1, 10) = Cygdrive
  /\ IsAlpha(p[11]) /\ p[12] = "/"

InitCLI ==
  /\ Environment
  /\ NoUploader
  /\ MainAt("check")
  /\ NoHelper

\* lines 113-123: the path given must exist and be a file, else exit code 1
MainCheckFile ==
  /\ cliPc = "check"
  /\ IF IsRegularFile(fileKind)
       THEN cliPc' = "construct" /\ UNCHANGED exitCode
       ELSE cliPc' = "exited" /\ exitCode' = 1
  /\ UNCHANGED <<cliExc, dropbox_path>>
  /\ UNCHANGED <<envVars, objVars, callerVars, uplVars, obsVars, fnVars>>

\* the user interrupts the process while upload() runs: KeyboardInterrupt is
\* no Exception, so it passes the except clauses of upload() (lines 317-354)
MainInterrupt ==
  /\ cliPc = "leave" /\ cpc = "uploading"
  /\ UploadRaises("KeyboardInterrupt", "none")
  /\ handleOpen' = FALSE
  /\ UNCHANGED <<overwrite, file_size, attempt, strategy, nextCall, tell,
                 cursor, exc, last_error>>
  /\ UNCHANGED obsVars
  /\ UNCHANGED <<inWith, nOps, lastOp, leftBy, blockClients>>
  /\ UNCHANGED <<envVars, objVars, cliVars, fnVars>>

\* the except clauses of main() and the sys.exit(0) of its try block
\* (lines 137-167): the exit code for exception e, "none" when none is raised
ExitCode(e) ==
  IF e = "none" THEN 0
  ELSE IF e = "AuthenticationError" THEN 2
  ELSE IF e = "FileNotFoundError" THEN 1
  ELSE IF e = "UploadError" THEN 3
  ELSE IF e = "DropboxUploaderError" THEN 4
  ELSE IF e = "KeyboardInterrupt" THEN 130
  ELSE 99

\* lines 132-167: after the with statement the path is appended to the file
\* GITHUB_OUTPUT names (writeFails: that raises OSError), then the process
\* exits
MainExit(writeFails) ==
  /\ cliPc = "handlers"
  /\ cliExc' = IF cliExc = "none" /\ writeFails THEN "OSError" ELSE cliExc
  /\ exitCode' = ExitCode(cliExc')
  /\ cliPc' = "exited"
  /\ UNCHANGED dropbox_path
  /\ UNCHANGED <<envVars, objVars, callerVars, uplVars, obsVars, fnVars>>

\* main() calls upload() only after its own check of the file succeeded, so
\* the FileNotFoundError branch of upload() is not among the steps
NextCLI ==
  \/ MainCheckFile
  \/ Construct
  \/ Enter
  \/ \E ow \in BOOLEAN : UploadBegin(ow)
  \/ DispatchSmall
  \/ DispatchLarge
  \/ UploadClientNoCredentials
  \/ \E o \in Outcomes : UploadClientCreate(o)
  \/ \E o \in Outcomes : FilesUpload(o)
  \/ \E o \in Outcomes : SessionStart(o)
  \/ \E o \in Outcomes : SessionAppend(o)
  \/ \E o \in Outcomes : SessionFinish(o)
  \/ ExceptAuthError
  \/ ExceptApiError
  \/ ExceptConnectionError
  \/ ExceptException
  \/ Sleep
  \/ MainInterrupt
  \/ \E b \in BOOLEAN : Exit(b)
  \/ \E w \in BOOLEAN : MainExit(w)

SpecCLI == InitCLI /\ [][NextCLI]_vars

\* C11: a run has no exit code until it ends and then exactly one of the
\* seven; it is 0 exactly when upload() returned a path (and nothing failed
\* after it); 1, with no uploader constructed and no client built, when the
\* file is missing or no regular file; 2 when credentials are missing or an
\* AuthenticationError ends the run; 3 for UploadError; 4 for any other
\* DropboxUploaderError; 130 for an interrupt; 99 for any other exception.
C11_ExitCodeByOutcome ==
  /\ cliPc \notin {"lib", "exited"} => exitCode = -1
  /\ cliPc = "exited" =>
       /\ exitCode \in {0, 1, 2, 3, 4, 130, 99}
       /\ exitCode = 0 <=> (dropbox_path # "none" /\ cliExc = "none")
       /\ ~IsRegularFile(fileKind) =>
            exitCode = 1 /\ lastOp = "none" /\ nClients = 0
       /\ (IsRegularFile(fileKind) /\ creds = "none"
             /\ cliExc # "KeyboardInterrupt") => exitCode = 2
       /\ cliExc = "AuthenticationError" => exitCode = 2
       /\ (cliExc = "UploadError" /\ creds # "none") => exitCode = 3
       /\ cliExc = "DropboxUploaderError" => exitCode = 4
       /\ cliExc = "KeyboardInterrupt" => exitCode = 130
       /\ cliExc = "OSError" => exitCode = 99

\* C21: every large-file attempt, also one that follows a failed session,
\* issues its start call at read position 0 with no cursor yet; the first
\* call carries the first chunk; and the cursor of every append and finish
\* call holds the session id of this attempt's start call, the id of no
\* earlier attempt, and the bytes sent in this attempt as offset.
C21_RetryStartsFreshSession ==
  strategy = "large" =>
    /\ (upc = "call" /\ nextCall = "start") =>
         tell = 0 /\ bytesSent = 0 /\ cursor = NoCursor /\ calls = NoCalls
    /\ (calls.start = 1 /\ calls.append = 0 /\ calls.finish = 0) =>
         bytesSent = Min(CHUNK_SIZE, diskLen)
    /\ (upc = "call" /\ nextCall \in {"append", "finish"}) =>
         /\ cursor.session_id = SessionId(attempt)
         /\ \A a \in 1..(attempt - 1) : cursor.session_id # SessionId(a)
         /\ cursor.offset = bytesSent

C21_Witness ==
  /\ strategy = "large" /\ attempt = 3 /\ upc = "call"
  /\ nextCall = "append" /\ calls.start = 1 /\ calls.append = 0
  /\ cursor = [session_id |-> SessionId(3), offset |-> CHUNK_SIZE]
  /\ last_error = "TimeoutError"

\* C22: the local file is open only inside a running attempt: not before an
\* attempt opens it (so never two handles at once), not at the except
\* clauses, not during a delay, and not once upload() returned or raised.
C22_HandleScopedToAttempt ==
  /\ handleOpen => upc = "call" /\ cpc = "uploading" /\ result = "none"
  /\ upc \in {"idle", "try", "except", "sleep", "done"} => ~handleOpen

C22_Witness ==
  /\ upc = "sleep" /\ ~handleOpen /\ strategy = "large"
  /\ calls.append = 5 /\ exc = "ConnectionError"

\* C23: all whole-file upload calls and finish calls of one upload() call,
\* in whatever attempt, were given the one remote path computed before the
\* retry loop and the mode the overwrite flag selects (overwrite if set, add
\* if not); and every attempt works with the size recorded before the loop.
C23_RequestUnchangedByRetries ==
  (upc \in {"try", "call", "except", "sleep"} \/ result \in
     {"returned", "AuthenticationError", "UploadError"}) =>
    /\ commits \subseteq
         {[path |-> TargetPath,
           mode |-> IF overwrite THEN "overwrite" ELSE "add"]}
    /\ (calls.upload + calls.finish > 0) => commits # {}
    /\ file_size = st_size

C23_Witness ==
  /\ result = "returned" /\ attemptsStarted = 3 /\ ~overwrite
  /\ last_error = "ApiOther" /\ calls.upload = 1
  /\ commits = {[path |-> TargetPath, mode |-> "add"]}

\* ---------------------------------------------------------------------------
\* _upload_large_file called on its own (lines 178-229), with any file_size
\* ---------------------------------------------------------------------------
MaxDirectChunks == 2

\* sizes of 0 .. MaxDirectChunks chunks (and one byte more), and the least
\* size upload() hands to this function
DirectSizes ==
  {k * CHUNK_SIZE + d : k \in 0..MaxDirectChunks, d \in {0, 1}}
    \cup {SMALL_FILE_LIMIT + 1}

\* an uploader exists and _upload_large_file has opened the file; an
\* exception of a call then leaves the function (no retry loop around it)
InitLargeDirect ==
  /\ creds \in Credentials
  /\ fileKind = "file"
  /\ st_size \in DirectSizes
  /\ diskLen \in DiskLens(st_size)
  /\ client = 0 /\ nClients = 0 /\ verified = {} /\ nVerify = 0
  /\ closeCalls = << >> /\ nClose = 0
  /\ cpc = "uploading" /\ inWith = FALSE /\ nOps = 0 /\ lastOp = "init"
  /\ raised = "none" /\ leftBy = "none" /\ blockClients = {}
  /\ upc = "call" /\ overwrite \in BOOLEAN /\ file_size = st_size
  /\ attempt = 1 /\ strategy = "large" /\ nextCall = "start"
  /\ handleOpen = TRUE /\ tell = 0 /\ cursor = NoCursor /\ exc = "none"
  /\ last_error = "none" /\ result = "none" /\ returned = "none"
  /\ cause = "none" /\ metadata = "none"
  /\ attemptsStarted = 1 /\ delays = 0 /\ strategies = {"large"}
  /\ calls = NoCalls /\ bytesSent = 0 /\ maxCallBytes = 0
  /\ gotClient = FALSE /\ backendTouched = FALSE /\ commits = {}
  /\ MainAt("lib")
  /\ NoHelper

NextLargeDirect ==
  \/ UploadClientNoCredentials
  \/ \E o \in Outcomes : UploadClientCreate(o)
  \/ \E o \in Outcomes : SessionStart(o)
  \/ \E o \in Outcomes : SessionAppend(o)
  \/ \E o \in Outcomes : SessionFinish(o)
  \/ UnexpectedEndOfFile

SpecLargeDirect == InitLargeDirect /\ [][NextLargeDirect]_vars

\* C24: _upload_large_file returns only after a finish call; when its chunk
\* loop ends with no finish call issued it raises UploadError and returns
\* nothing; and for a size upload() routes to it (above the threshold) with
\* the file as long as that size, the loop never ends that way: until the
\* finish call the read position stays below the size and the append calls
\* stay within the chunks that precede the last.
C24_NoSuccessWithoutFinish ==
  /\ result = "returned" => calls.finish = 1
  /\ nextCall = "eof" =>
       /\ calls.finish = 0 /\ result = "none"
       /\ upc \in {"call", "except"}
       /\ upc = "except" => exc = "UploadError"
  /\ (file_size > SMALL_FILE_LIMIT /\ diskLen = file_size) =>
       /\ nextCall # "eof" /\ exc # "UploadError"
       /\ upc = "call" => tell < file_size
       /\ calls.append <= ((file_size - 1) \div CHUNK_SIZE) - 1

C24_Witness ==
  /\ nextCall = "eof" /\ upc = "except" /\ exc = "UploadError"
  /\ file_size = CHUNK_SIZE /\ calls.start = 1 /\ ~handleOpen

\* C25: the uploader never holds a client whose identity verification did
\* not succeed, so every upload or session call of an upload() goes through
\* a verified client.
C25_OnlyVerifiedClientUsed ==
  /\ client # 0 => client \in verified
  /\ (calls.upload + calls.start + calls.append + calls.finish > 0) =>
       client \in verified

\* backend upload and session calls counted in c
CallsIssued(c) == c.upload + c.start + c.append + c.finish

\* C26: every append call of the chunk loop moves the read position forward,
\* and one attempt issues at most ceil(file_size / CHUNK_SIZE) + 1 backend
\* calls, also when the file on disk is shorter than the recorded size.
C26_ChunkLoopProgress ==
  [][/\ calls'.append = calls.append + 1 => tell' > tell
     /\ CallsIssued(calls') <=
          ((file_size' + CHUNK_SIZE - 1) \div CHUNK_SIZE) + 1]_vars

\* C27: the client the uploader holds, through which every backend call is
\* issued, has received no close call; no client received more than one, so
\* close() on an uploader that holds none closes nothing; and a client built
\* after a close is a new one, verified when built.
C27_NoUseAfterClose ==
  /\ \A c \in 1..nClients : closeCalls[c] <= 1
  /\ client # 0 => closeCalls[client] = 0
  /\ nClose = Cardinality({c \in 1..nClients : closeCalls[c] = 1})
  /\ \A c \in 1..nClients : closeCalls[c] = 1 => c # client
  /\ client # 0 => client = nClients
  /\ nVerify = nClients

C27_Witness ==
  /\ lastOp = "upload" /\ result = "returned" /\ nOps = 2
  /\ nClients = 2 /\ closeCalls = <<1, 0>> /\ client = 2
  /\ verified = {1, 2} /\ nClose = 1

\* C28: an argument that has neither the form /<letter>/rest nor the form
\* /cygdrive/<letter>/rest is handed to the resolution as it is, and no
\* argument is rewritten by both rules.
C28_OnlyForeignFormsRewritten ==
  fnPc = "rewritten" =>
    /\ (~GitBashForm(fnIn) /\ ~CygdriveForm(fnIn)) => fnOut = fnIn
    /\ ~(/\ GitBashRewrite(fnIn) # fnIn
         /\ CygdriveRewrite(GitBashRewrite(fnIn)) # GitBashRewrite(fnIn))

====
